---- MODULE Spec2Model ----
(***************************************************************************)
(* Channel layer receivers of lightyear (shared/src/channel/receivers):    *)
(*   - OrderedReliableReceiver (ordered_reliable.rs)                       *)
(*   - FragmentReceiver / FragmentConstructor (fragment_receiver.rs)       *)
(* Each receiver is a single-threaded object; one action per method call.  *)
(***************************************************************************)
EXTENDS Integers, Sequences, FiniteSets, TLC

VARIABLES
    pending_recv_message_id,  \* OrderedReliableReceiver.pending_recv_message_id
    recv_message_buffer,      \* OrderedReliableReceiver.recv_message_buffer
    orr_last,                 \* the last call made on the ordered receiver and its result
    last_read_id,             \* id of the last message returned by read_message
    num_reads,                \* number of messages returned by read_message so far
    fragment_messages,        \* FragmentReceiver.fragment_messages
    frag_last,                \* the last call made on the fragment receiver and its result
    clean,                    \* per message id: its latest entry received only new, valid fragments
    now                       \* the caller's monotonic clock

orr_vars == <<pending_recv_message_id, recv_message_buffer, orr_last,
              last_read_id, num_reads>>

frag_vars == <<fragment_messages, frag_last, clean, now>>

vars == <<orr_vars, frag_vars>>

(***************************************************************************)
(* MessageId (packet/wrapping_id.rs): a wrapping u16.                      *)
(***************************************************************************)
MessageIdBits == 16

MessageIdModulus == 2 ^ MessageIdBits

MessageId == 0 .. (MessageIdModulus - 1)

\* a < b iff (b - a) mod 2^W lies in (0, 2^(W-1))
MessageIdLt(a, b) ==
    LET d == (b - a) % MessageIdModulus
    IN  d > 0 /\ d < MessageIdModulus \div 2

\* MessageId += 1
MessageIdSucc(x) == (x + 1) % MessageIdModulus

(***************************************************************************)
(* Bounds of the model                                                     *)
(***************************************************************************)
\* buffer_recv is called with ids at these distances from the pending id:
\* the id just delivered, the pending id, the next one, and an old one
\* (MessageId(60000) when the pending id is 0, as in the test)
InputOffsets == {-5536, -1, 0, 1}

\* read_message returns at most this many messages in one behaviour
MaxReads == 65538

NoId == -1

Bodies == {"hello", "world"}

\* A message as the sender built it for `id`
Message(id, body) == [id |-> id, body |-> body]

\* the ids buffer_recv is called with in a state
InputIds ==
    {(pending_recv_message_id + d) % MessageIdModulus : d \in InputOffsets}

\* packet::FRAGMENT_SIZE, the number of payload bytes of a full fragment
FRAGMENT_SIZE == 2

\* the caller's clock runs from 0 to MaxTime
MaxTime == 1

NoTime == -1

\* the message ids of the fragmented messages in flight
FragmentMessageIds == {0, 1}

\* len bytes that no payload contains
AltBytes(len) == [k \in 1 .. len |-> 255]

(***************************************************************************)
(* The sender's side: payloads and FragmentSender::build_fragments         *)
(***************************************************************************)
\* message 0 is 1.5 fragments long (as in test_receiver), message 1 is one
\* byte short of 3 fragments
PayloadLen(m) ==
    IF m = 0 THEN FRAGMENT_SIZE + FRAGMENT_SIZE \div 2 ELSE 3 * FRAGMENT_SIZE - 1

\* the original payload of message m: distinct non-zero bytes
Payload(m) == [k \in 1 .. PayloadLen(m) |-> 16 * (m + 1) + k]

\* num_fragments = ceil(total_len / FRAGMENT_SIZE)
NumFragments(m) == (PayloadLen(m) + FRAGMENT_SIZE - 1) \div FRAGMENT_SIZE

\* bytes [from, to) of a byte sequence (0-based, as a Rust slice)
Slice(b, from, to) == [k \in 1 .. (to - from) |-> b[from + k]]

Min(a, b) == IF a < b THEN a ELSE b

\* fragment i of message m as the sender builds it
build_fragment(m, i) ==
    [message_id |-> m,
     fragment_id |-> i,
     num_fragments |-> NumFragments(m),
     bytes |-> Slice(Payload(m), i * FRAGMENT_SIZE,
                     Min((i + 1) * FRAGMENT_SIZE, PayloadLen(m)))]

build_fragments(m) == {build_fragment(m, i) : i \in 0 .. (NumFragments(m) - 1)}

ValidFragments == UNION {build_fragments(m) : m \in FragmentMessageIds}

\* a fragment as the network may deliver it instead of f: other bytes of
\* any length up to FRAGMENT_SIZE + 1, an index past the end, or another
\* fragment count
Malformations(f) ==
    {[f EXCEPT !.bytes = AltBytes(len)] : len \in 0 .. (FRAGMENT_SIZE + 1)}
        \cup {[f EXCEPT !.fragment_id = f.num_fragments]}
        \cup {[f EXCEPT !.num_fragments = f.num_fragments + 1]}

\* the fragments of these messages also arrive malformed
MalformedMessageIds == {0}

InputFragments ==
    ValidFragments
        \cup UNION {Malformations(f) : f \in UNION {build_fragments(m) : m \in MalformedMessageIds}}

(***************************************************************************)
(* FragmentConstructor                                                     *)
(***************************************************************************)
FragmentConstructor_new(num_fragments) ==
    [num_fragments |-> num_fragments,
     num_received_fragments |-> 0,
     received |-> [i \in 1 .. num_fragments |-> FALSE],
     bytes |-> [k \in 1 .. (num_fragments * FRAGMENT_SIZE) |-> 0],
     last_received |-> NoTime]

\* Vec::resize(len, 0)
Resize(b, len) == [k \in 1 .. len |-> IF k <= Len(b) THEN b[k] ELSE 0]

\* b[start..start + Len(src)].copy_from_slice(src)
CopyFromSlice(b, start, src) ==
    [k \in 1 .. Len(b) |->
        IF k > start /\ k <= start + Len(src) THEN src[k - start] ELSE b[k]]

\* receive_fragment that never trims the buffer to the length of the last fragment
FragmentConstructor_receive_fragment_no_resize(self, fragment_index, bytes, received_time) ==
    LET s1 == [self EXCEPT !.last_received = received_time]
    IN  IF fragment_index >= Len(s1.received)
        THEN [self |-> s1, result |-> "Panic", payload |-> << >>]
        ELSE
        LET s2 == IF s1.received[fragment_index + 1]
                  THEN s1
                  ELSE [s1 EXCEPT !.received[fragment_index + 1] = TRUE,
                                  !.num_received_fragments = @ + 1]
            start == fragment_index * FRAGMENT_SIZE
            end == start + Len(bytes)
        IN  IF ~s1.received[fragment_index + 1] /\ end > Len(s2.bytes)
            THEN [self |-> s2, result |-> "Panic", payload |-> << >>]
            ELSE
            LET s4 == IF s1.received[fragment_index + 1]
                      THEN s2
                      ELSE [s2 EXCEPT !.bytes = CopyFromSlice(@, start, bytes)]
            IN  IF s4.num_received_fragments = s4.num_fragments
                THEN [self |-> [s4 EXCEPT !.bytes = << >>],
                      result |-> "Some", payload |-> s4.bytes]
                ELSE [self |-> s4, result |-> "None", payload |-> << >>]

\* receive_fragment that does not look at received[fragment_index]
FragmentConstructor_receive_fragment_no_dup_check(self, fragment_index, bytes, received_time) ==
    LET s1 == [self EXCEPT !.last_received = received_time]
        is_last_fragment == fragment_index = self.num_fragments - 1
    IN  IF fragment_index >= Len(s1.received)
        THEN [self |-> s1, result |-> "Panic", payload |-> << >>]
        ELSE
        LET s2 == [s1 EXCEPT !.received[fragment_index + 1] = TRUE,
                             !.num_received_fragments = @ + 1]
            s3 == IF is_last_fragment
                  THEN [s2 EXCEPT !.bytes =
                          Resize(@, (self.num_fragments - 1) * FRAGMENT_SIZE + Len(bytes))]
                  ELSE s2
            start == fragment_index * FRAGMENT_SIZE
            end == start + Len(bytes)
        IN  IF end > Len(s3.bytes)
            THEN [self |-> s3, result |-> "Panic", payload |-> << >>]
            ELSE
            LET s4 == [s3 EXCEPT !.bytes = CopyFromSlice(@, start, bytes)]
            IN  IF s4.num_received_fragments = s4.num_fragments
                THEN [self |-> [s4 EXCEPT !.bytes = << >>],
                      result |-> "Some", payload |-> s4.bytes]
                ELSE [self |-> s4, result |-> "None", payload |-> << >>]

\* receive_fragment refreshing last_received only for a fragment not yet
\* received
FragmentConstructor_receive_fragment_time_if_new(self, fragment_index, bytes, received_time) ==
    LET is_last_fragment == fragment_index = self.num_fragments - 1
    IN  IF fragment_index >= Len(self.received)
        THEN [self |-> self, result |-> "Panic", payload |-> << >>]
        ELSE
        LET s1 == IF self.received[fragment_index + 1]
                  THEN self
                  ELSE [self EXCEPT !.last_received = received_time]
            s2 == IF s1.received[fragment_index + 1]
                  THEN s1
                  ELSE [s1 EXCEPT !.received[fragment_index + 1] = TRUE,
                                  !.num_received_fragments = @ + 1]
            s3 == IF ~s1.received[fragment_index + 1] /\ is_last_fragment
                  THEN [s2 EXCEPT !.bytes =
                          Resize(@, (self.num_fragments - 1) * FRAGMENT_SIZE + Len(bytes))]
                  ELSE s2
            start == fragment_index * FRAGMENT_SIZE
            end == start + Len(bytes)
        IN  IF ~s1.received[fragment_index + 1] /\ end > Len(s3.bytes)
            THEN [self |-> s3, result |-> "Panic", payload |-> << >>]
            ELSE
            LET s4 == IF s1.received[fragment_index + 1]
                      THEN s3
                      ELSE [s3 EXCEPT !.bytes = CopyFromSlice(@, start, bytes)]
            IN  IF s4.num_received_fragments = s4.num_fragments
                THEN [self |-> [s4 EXCEPT !.bytes = << >>],
                      result |-> "Some", payload |-> s4.bytes]
                ELSE [self |-> s4, result |-> "None", payload |-> << >>]

\* FragmentConstructor::receive_fragment: the constructor after the call and
\* what the call returns; "Panic" when an index is out of bounds
FragmentConstructor_receive_fragment(self, fragment_index, bytes, received_time) ==
    LET s1 == [self EXCEPT !.last_received = received_time]
        is_last_fragment == fragment_index = self.num_fragments - 1
    IN  IF fragment_index >= Len(s1.received)
        THEN [self |-> s1, result |-> "Panic", payload |-> << >>]
        ELSE
        LET s2 == IF s1.received[fragment_index + 1]
                  THEN s1
                  ELSE [s1 EXCEPT !.received[fragment_index + 1] = TRUE,
                                  !.num_received_fragments = @ + 1]
            s3 == IF ~s1.received[fragment_index + 1] /\ is_last_fragment
                  THEN [s2 EXCEPT !.bytes =
                          Resize(@, (self.num_fragments - 1) * FRAGMENT_SIZE + Len(bytes))]
                  ELSE s2
            start == fragment_index * FRAGMENT_SIZE
            end == start + Len(bytes)
        IN  IF ~s1.received[fragment_index + 1] /\ end > Len(s3.bytes)
            THEN [self |-> s3, result |-> "Panic", payload |-> << >>]
            ELSE
            LET s4 == IF s1.received[fragment_index + 1]
                      THEN s3
                      ELSE [s3 EXCEPT !.bytes = CopyFromSlice(@, start, bytes)]
            IN  IF s4.num_received_fragments = s4.num_fragments
                THEN [self |-> [s4 EXCEPT !.bytes = << >>],
                      result |-> "Some", payload |-> s4.bytes]
                ELSE [self |-> s4, result |-> "None", payload |-> << >>]

(***************************************************************************)
(* FragmentReceiver                                                        *)
(***************************************************************************)
FragmentReceiver_new ==
    /\ fragment_messages = << >>
    /\ frag_last = [op |-> "new"]
    /\ clean = [m \in FragmentMessageIds |-> TRUE]
    /\ now = 0

\* an index out of bounds unwinds out of receive_fragment; the receiver is
\* not used after that
Panicked == frag_last.op = "receive_fragment" /\ frag_last.result = "Panic"

Without(map, key) == [k \in DOMAIN map \ {key} |-> map[k]]

\* the fragment is one the sender built and its index is not yet received
IsNewValidFragment(fragment) ==
    /\ fragment \in ValidFragments
    /\ fragment.message_id \in DOMAIN fragment_messages
          => ~fragment_messages[fragment.message_id].received[fragment.fragment_id + 1]

\* receive_fragment that leaves the completed constructor in the map
receive_fragment_no_remove(fragment, current_time) ==
    LET id == fragment.message_id
        fragment_message ==
            IF id \in DOMAIN fragment_messages
            THEN fragment_messages[id]
            ELSE FragmentConstructor_new(fragment.num_fragments)
        r == FragmentConstructor_receive_fragment(
                 fragment_message, fragment.fragment_id, fragment.bytes, current_time)
    IN  /\ ~Panicked
        /\ fragment_messages' = (id :> r.self) @@ fragment_messages
        /\ frag_last' =
              [op |-> "receive_fragment", fragment |-> fragment, time |-> current_time,
               result |-> r.result,
               data |-> IF r.result = "Some"
                        THEN [id |-> id, bytes |-> r.payload]
                        ELSE [id |-> NoId, bytes |-> << >>]]
        /\ clean' = [clean EXCEPT ![id] =
                        (id \in DOMAIN fragment_messages => @) /\ IsNewValidFragment(fragment)]
        /\ UNCHANGED now

\* receive_fragment emptying the whole map when a message completes
receive_fragment_clear_all(fragment, current_time) ==
    LET id == fragment.message_id
        fragment_message ==
            IF id \in DOMAIN fragment_messages
            THEN fragment_messages[id]
            ELSE FragmentConstructor_new(fragment.num_fragments)
        r == FragmentConstructor_receive_fragment(
                 fragment_message, fragment.fragment_id, fragment.bytes, current_time)
    IN  /\ ~Panicked
        /\ fragment_messages' =
              IF r.result = "Some"
              THEN << >>
              ELSE (id :> r.self) @@ fragment_messages
        /\ frag_last' =
              [op |-> "receive_fragment", fragment |-> fragment, time |-> current_time,
               result |-> r.result,
               data |-> IF r.result = "Some"
                        THEN [id |-> id, bytes |-> r.payload]
                        ELSE [id |-> NoId, bytes |-> << >>]]
        /\ clean' = [clean EXCEPT ![id] =
                        (id \in DOMAIN fragment_messages => @) /\ IsNewValidFragment(fragment)]
        /\ UNCHANGED now

receive_fragment(fragment, current_time) ==
    LET id == fragment.message_id
        fragment_message ==
            IF id \in DOMAIN fragment_messages
            THEN fragment_messages[id]
            ELSE FragmentConstructor_new(fragment.num_fragments)
        r == FragmentConstructor_receive_fragment(
                 fragment_message, fragment.fragment_id, fragment.bytes, current_time)
    IN  /\ ~Panicked
        /\ fragment_messages' =
              IF r.result = "Some"
              THEN Without(fragment_messages, id)
              ELSE (id :> r.self) @@ fragment_messages
        /\ frag_last' =
              [op |-> "receive_fragment", fragment |-> fragment, time |-> current_time,
               result |-> r.result,
               data |-> IF r.result = "Some"
                        THEN [id |-> id, bytes |-> r.payload]
                        ELSE [id |-> NoId, bytes |-> << >>]]
        /\ clean' = [clean EXCEPT ![id] =
                        (id \in DOMAIN fragment_messages => @) /\ IsNewValidFragment(fragment)]
        /\ UNCHANGED now

\* cleanup that keeps the messages last received exactly at the cleanup time
cleanup_keep_equal(cleanup_time) ==
    LET retained == {m \in DOMAIN fragment_messages :
                        IF fragment_messages[m].last_received # NoTime
                        THEN fragment_messages[m].last_received >= cleanup_time
                        ELSE TRUE}
    IN  /\ ~Panicked
        /\ fragment_messages' = [m \in retained |-> fragment_messages[m]]
        /\ frag_last' = [op |-> "cleanup", cleanup_time |-> cleanup_time,
                         evicted |-> DOMAIN fragment_messages \ retained]
        /\ UNCHANGED clean
        /\ UNCHANGED now

cleanup(cleanup_time) ==
    LET retained == {m \in DOMAIN fragment_messages :
                        IF fragment_messages[m].last_received # NoTime
                        THEN fragment_messages[m].last_received > cleanup_time
                        ELSE TRUE}
    IN  /\ ~Panicked
        /\ fragment_messages' = [m \in retained |-> fragment_messages[m]]
        /\ frag_last' = [op |-> "cleanup", cleanup_time |-> cleanup_time,
                         evicted |-> DOMAIN fragment_messages \ retained]
        /\ UNCHANGED clean
        /\ UNCHANGED now

ReceiveFragment ==
    \E fragment \in InputFragments, current_time \in {NoTime, now} :
        receive_fragment(fragment, current_time)

Cleanup == \E cleanup_time \in 0 .. MaxTime : cleanup(cleanup_time)

\* the caller's clock advances
Tick ==
    /\ ~Panicked
    /\ now < MaxTime
    /\ now' = now + 1
    /\ UNCHANGED <<fragment_messages, frag_last, clean>>

(***************************************************************************)
(* OrderedReliableReceiver                                                 *)
(***************************************************************************)
\* recv_message_buffer (a BTreeMap) is a function from the buffered ids to
\* their messages
OrderedReliableReceiver_new ==
    /\ pending_recv_message_id = 0
    /\ recv_message_buffer = << >>
    /\ orr_last = [op |-> "new"]
    /\ last_read_id = NoId
    /\ num_reads = 0

\* buffer_recv comparing the ids as plain integers
buffer_recv_numeric(message, message_id) ==
    /\ orr_last' = [op |-> "buffer_recv", id |-> message_id, message |-> message]
    /\ IF message_id < pending_recv_message_id
       THEN UNCHANGED recv_message_buffer
       ELSE IF message_id \notin DOMAIN recv_message_buffer
            THEN recv_message_buffer' = (message_id :> message) @@ recv_message_buffer
            ELSE UNCHANGED recv_message_buffer
    /\ UNCHANGED <<pending_recv_message_id, last_read_id, num_reads>>

\* buffer_recv without the check for old messages
buffer_recv_no_stale_check(message, message_id) ==
    /\ orr_last' = [op |-> "buffer_recv", id |-> message_id, message |-> message]
    /\ IF message_id \notin DOMAIN recv_message_buffer
       THEN recv_message_buffer' = (message_id :> message) @@ recv_message_buffer
       ELSE UNCHANGED recv_message_buffer
    /\ UNCHANGED <<pending_recv_message_id, last_read_id, num_reads>>

\* buffer_recv replacing the message already buffered for the id
buffer_recv_overwrite(message, message_id) ==
    /\ orr_last' = [op |-> "buffer_recv", id |-> message_id, message |-> message]
    /\ IF MessageIdLt(message_id, pending_recv_message_id)
       THEN UNCHANGED recv_message_buffer
       ELSE recv_message_buffer' = (message_id :> message) @@ recv_message_buffer
    /\ UNCHANGED <<pending_recv_message_id, last_read_id, num_reads>>

\* buffer_recv also dropping the pending id itself (<= instead of <)
buffer_recv_drop_pending(message, message_id) ==
    /\ orr_last' = [op |-> "buffer_recv", id |-> message_id, message |-> message]
    /\ IF message_id = pending_recv_message_id
            \/ MessageIdLt(message_id, pending_recv_message_id)
       THEN UNCHANGED recv_message_buffer
       ELSE IF message_id \notin DOMAIN recv_message_buffer
            THEN recv_message_buffer' = (message_id :> message) @@ recv_message_buffer
            ELSE UNCHANGED recv_message_buffer
    /\ UNCHANGED <<pending_recv_message_id, last_read_id, num_reads>>

buffer_recv(message, message_id) ==
    /\ orr_last' = [op |-> "buffer_recv", id |-> message_id, message |-> message]
    /\ IF MessageIdLt(message_id, pending_recv_message_id)
       THEN UNCHANGED recv_message_buffer
       ELSE IF message_id \notin DOMAIN recv_message_buffer
            THEN recv_message_buffer' = (message_id :> message) @@ recv_message_buffer
            ELSE UNCHANGED recv_message_buffer
    /\ UNCHANGED <<pending_recv_message_id, last_read_id, num_reads>>

\* read_message returning the oldest buffered message, whatever its id
read_message_pop_first ==
    IF DOMAIN recv_message_buffer # {}
    THEN /\ num_reads < MaxReads
         /\ LET first == CHOOSE k \in DOMAIN recv_message_buffer :
                            \A j \in DOMAIN recv_message_buffer : ~MessageIdLt(j, k)
                message == recv_message_buffer[first]
            IN  /\ orr_last' = [op |-> "read_message", some |-> TRUE, message |-> message]
                /\ last_read_id' = message.id
                /\ recv_message_buffer' =
                       [k \in DOMAIN recv_message_buffer \ {first} |-> recv_message_buffer[k]]
                /\ pending_recv_message_id' = MessageIdSucc(first)
         /\ num_reads' = num_reads + 1
    ELSE /\ orr_last' = [op |-> "read_message", some |-> FALSE]
         /\ UNCHANGED <<pending_recv_message_id, recv_message_buffer,
                        last_read_id, num_reads>>

\* read_message leaving the returned message in the buffer
read_message_no_remove ==
    IF pending_recv_message_id \in DOMAIN recv_message_buffer
    THEN /\ num_reads < MaxReads
         /\ LET message == recv_message_buffer[pending_recv_message_id]
            IN  /\ orr_last' = [op |-> "read_message", some |-> TRUE, message |-> message]
                /\ last_read_id' = message.id
         /\ UNCHANGED recv_message_buffer
         /\ pending_recv_message_id' = MessageIdSucc(pending_recv_message_id)
         /\ num_reads' = num_reads + 1
    ELSE /\ orr_last' = [op |-> "read_message", some |-> FALSE]
         /\ UNCHANGED <<pending_recv_message_id, recv_message_buffer,
                        last_read_id, num_reads>>

read_message ==
    IF pending_recv_message_id \in DOMAIN recv_message_buffer
    THEN /\ num_reads < MaxReads
         /\ LET message == recv_message_buffer[pending_recv_message_id]
            IN  /\ orr_last' = [op |-> "read_message", some |-> TRUE, message |-> message]
                /\ last_read_id' = message.id
         /\ recv_message_buffer' =
                [k \in DOMAIN recv_message_buffer \ {pending_recv_message_id}
                    |-> recv_message_buffer[k]]
         /\ pending_recv_message_id' = MessageIdSucc(pending_recv_message_id)
         /\ num_reads' = num_reads + 1
    ELSE /\ orr_last' = [op |-> "read_message", some |-> FALSE]
         /\ UNCHANGED <<pending_recv_message_id, recv_message_buffer,
                        last_read_id, num_reads>>

BufferRecv ==
    \E message_id \in InputIds, body \in Bodies :
        buffer_recv(Message(message_id, body), message_id)

ReadMessage == read_message

Init == OrderedReliableReceiver_new /\ FragmentReceiver_new

\* the ordered receiver on its own
NextOrdered ==
    \/ BufferRecv /\ UNCHANGED frag_vars
    \/ ReadMessage /\ UNCHANGED frag_vars

SpecOrdered == Init /\ [][NextOrdered]_vars

\* the first deliveries of the ordered receiver: the sender keeps
\* retransmitting the pending id and the caller keeps calling read_message
MaxLiveReads == 4

\* buffer_recv called with the pending id
BufferPending ==
    \E body \in Bodies :
        buffer_recv(Message(pending_recv_message_id, body), pending_recv_message_id)

ReadMessageLive == ReadMessage /\ num_reads' <= MaxLiveReads

NextOrderedLive ==
    \/ BufferRecv /\ UNCHANGED frag_vars
    \/ ReadMessageLive /\ UNCHANGED frag_vars

SpecOrderedLive ==
    /\ Init
    /\ [][NextOrderedLive]_vars
    /\ WF_vars(BufferPending /\ UNCHANGED frag_vars)
    /\ WF_vars(ReadMessageLive /\ UNCHANGED frag_vars)

\* the fragment receiver on its own
NextFragment ==
    \/ ReceiveFragment /\ UNCHANGED orr_vars
    \/ Cleanup /\ UNCHANGED orr_vars
    \/ Tick /\ UNCHANGED orr_vars

SpecFragment == Init /\ [][NextFragment]_vars

(***************************************************************************)
(* Properties of the ordered receiver                                      *)
(***************************************************************************)
\* the step is a read_message call that returned Some(message)
ReadSomeStep == orr_last'.op = "read_message" /\ orr_last'.some

\* the step is a buffer_recv call
BufferRecvStep == orr_last'.op = "buffer_recv"

\* C1: the ids of the messages returned by successive non-None read_message
\* calls are 0, 1, 2, ... (each one more than the previous, modulo 2^16),
\* whatever else is buffered, and each delivery advances
\* pending_recv_message_id by exactly 1.
C1_InOrderDelivery ==
    [][ReadSomeStep =>
          /\ orr_last'.message.id =
                 (IF last_read_id = NoId THEN 0 ELSE MessageIdSucc(last_read_id))
          /\ orr_last'.message.id = pending_recv_message_id
          /\ pending_recv_message_id' = (pending_recv_message_id + 1) % MessageIdModulus
          /\ orr_last'.message.id \notin DOMAIN recv_message_buffer'
       ]_vars

\* C1 witness: id 2 was delivered after 0 and 1 while the newer id 3 was
\* already buffered, and 3 stays buffered.
C1_Witness ==
    /\ orr_last.op = "read_message" /\ orr_last.some
    /\ last_read_id = 2 /\ num_reads = 3
    /\ pending_recv_message_id = 3
    /\ DOMAIN recv_message_buffer = {3}

\* C3: staleness is decided by wrapping comparison of the 16-bit ids: with
\* pending id 0, id 65535 is rejected (buffer unchanged); with pending id
\* 65535, id 0 is accepted; delivering 65535 wraps the pending id to 0 and
\* the next read_message returns the message buffered for id 0.
C3_WrapComparison ==
    [][/\ (BufferRecvStep /\ pending_recv_message_id = 0 /\ orr_last'.id = 65535)
            => recv_message_buffer' = recv_message_buffer
       /\ (BufferRecvStep /\ pending_recv_message_id = 65535 /\ orr_last'.id = 0)
            => /\ 0 \in DOMAIN recv_message_buffer'
               /\ (0 \notin DOMAIN recv_message_buffer
                      => recv_message_buffer'[0] = orr_last'.message)
       /\ (ReadSomeStep /\ pending_recv_message_id = 65535)
            => /\ orr_last'.message.id = 65535
               /\ pending_recv_message_id' = 0
       /\ (orr_last'.op = "read_message" /\ last_read_id = 65535
              /\ 0 \in DOMAIN recv_message_buffer)
            => /\ orr_last'.some
               /\ orr_last'.message = recv_message_buffer[0]
               /\ orr_last'.message.id = 0
       ]_vars

\* C3 witness: the message with id 0 has been returned right after the one
\* with id 65535, 65537 deliveries after construction.
C3_Witness ==
    /\ orr_last.op = "read_message" /\ orr_last.some
    /\ orr_last.message.id = 0
    /\ num_reads = 65537
    /\ pending_recv_message_id = 1

\* C4: buffer_recv with an id older than pending_recv_message_id (wrapping
\* comparison) changes neither recv_message_buffer nor
\* pending_recv_message_id.
C4_StaleIsNoOp ==
    [][(BufferRecvStep /\ MessageIdLt(orr_last'.id, pending_recv_message_id))
          => /\ recv_message_buffer' = recv_message_buffer
             /\ pending_recv_message_id' = pending_recv_message_id
       ]_vars

\* C4 witness: the id just delivered is passed to buffer_recv again while
\* another message is buffered, and it is not in the buffer afterwards.
C4_Witness ==
    /\ orr_last.op = "buffer_recv"
    /\ num_reads > 0
    /\ orr_last.id = last_read_id
    /\ MessageIdLt(orr_last.id, pending_recv_message_id)
    /\ recv_message_buffer # << >>
    /\ orr_last.id \notin DOMAIN recv_message_buffer

\* C11: buffer_recv is first-write-wins: a call with a non-stale id that is
\* already buffered leaves the buffer unchanged, no call replaces a buffered
\* message, and read_message returns the message that is buffered for the
\* pending id, which is the first one buffered for it.
C11_FirstWriteWins ==
    [][/\ (BufferRecvStep
              /\ ~MessageIdLt(orr_last'.id, pending_recv_message_id)
              /\ orr_last'.id \in DOMAIN recv_message_buffer)
            => recv_message_buffer' = recv_message_buffer
       /\ BufferRecvStep
            => \A k \in DOMAIN recv_message_buffer :
                  /\ k \in DOMAIN recv_message_buffer'
                  /\ recv_message_buffer'[k] = recv_message_buffer[k]
       /\ ReadSomeStep
            => orr_last'.message = recv_message_buffer[pending_recv_message_id]
       ]_vars

\* C11 witness: the pending id was passed again with another message and
\* the buffer still holds the first one.
C11_Witness ==
    /\ orr_last.op = "buffer_recv"
    /\ orr_last.id = pending_recv_message_id
    /\ orr_last.id \in DOMAIN recv_message_buffer
    /\ recv_message_buffer[orr_last.id] # orr_last.message
    /\ recv_message_buffer[orr_last.id].id = orr_last.id

\* C15: read_message returns None exactly when the buffer has no entry for
\* the pending id, and then changes neither the pending id nor the buffer;
\* otherwise it removes and returns exactly the entry of the pending id.
C15_ReadMessageFrame ==
    [][orr_last'.op = "read_message" =>
          /\ orr_last'.some <=> pending_recv_message_id \in DOMAIN recv_message_buffer
          /\ ~orr_last'.some
                => /\ pending_recv_message_id' = pending_recv_message_id
                   /\ recv_message_buffer' = recv_message_buffer
          /\ orr_last'.some
                => /\ orr_last'.message = recv_message_buffer[pending_recv_message_id]
                   /\ DOMAIN recv_message_buffer' =
                         DOMAIN recv_message_buffer \ {pending_recv_message_id}
                   /\ \A k \in DOMAIN recv_message_buffer' :
                         recv_message_buffer'[k] = recv_message_buffer[k]
       ]_vars

\* C15 witness: read_message returned None while a newer id is buffered.
C15_Witness ==
    /\ orr_last.op = "read_message"
    /\ ~orr_last.some
    /\ DOMAIN recv_message_buffer = {MessageIdSucc(pending_recv_message_id)}
    /\ num_reads = 2

\* C16: once a message is buffered and the ids before it keep being
\* passed to buffer_recv while read_message keeps being called, the message
\* is eventually returned by read_message.
C16_BufferedIsEventuallyRead ==
    \A k \in 0 .. (MaxLiveReads - 1) :
        (k \in DOMAIN recv_message_buffer)
            ~> (orr_last.op = "read_message" /\ orr_last.some /\ orr_last.message.id = k)

\* C16 witness: id 1 has been returned after the gap at id 0 was filled.
C16_Witness ==
    /\ orr_last.op = "read_message" /\ orr_last.some
    /\ orr_last.message.id = 1
    /\ num_reads = 2
    /\ pending_recv_message_id = 2

\* C19: every buffered id is at or ahead of pending_recv_message_id in the
\* wrapping order; no delivered id stays in the buffer.
C19_BufferAheadOfPending ==
    \A id \in DOMAIN recv_message_buffer :
        /\ ~MessageIdLt(id, pending_recv_message_id)
        /\ last_read_id # NoId => id # last_read_id

\* C19 witness: id 0 is buffered while the pending id is 65535.
C19_Witness ==
    /\ pending_recv_message_id = 65535
    /\ DOMAIN recv_message_buffer = {65535, 0}

(***************************************************************************)
(* Properties of the fragment receiver                                     *)
(***************************************************************************)
\* the step is a receive_fragment call
ReceiveStep == frag_last'.op = "receive_fragment" /\ now' = now

\* the step is a cleanup call
CleanupStep == frag_last'.op = "cleanup" /\ now' = now

\* the reassembly state of a constructor, without its timestamp
Progress(c) == <<c.num_fragments, c.num_received_fragments, c.received, c.bytes>>

\* number of fragments of message m received so far
NumReceived(m) ==
    IF m \in DOMAIN fragment_messages
    THEN Cardinality({i \in DOMAIN fragment_messages[m].received :
                         fragment_messages[m].received[i]})
    ELSE 0

\* C2: the valid fragments of a message, each fed once in any order into a
\* receiver with no entry for its id, return None for the first n-1 calls
\* and Some(SingleData) with the message id and the original payload for the
\* n-th call.
C2_AnyOrderReassembly ==
    [][\A m \in FragmentMessageIds :
          (/\ ReceiveStep
           /\ frag_last'.fragment.message_id = m
           /\ m \in DOMAIN fragment_messages => clean[m]
           /\ IsNewValidFragment(frag_last'.fragment))
          => IF NumReceived(m) + 1 = NumFragments(m)
             THEN /\ frag_last'.result = "Some"
                  /\ frag_last'.data = [id |-> m, bytes |-> Payload(m)]
                  /\ Len(frag_last'.data.bytes) = PayloadLen(m)
             ELSE frag_last'.result = "None"
       ]_vars

\* C2 witness: message 0 completes with its original payload on fragment 0,
\* its last fragment having arrived first and nothing else in between.
C2_Witness ==
    /\ frag_last.op = "receive_fragment"
    /\ frag_last.result = "Some"
    /\ frag_last.fragment = build_fragment(0, 0)
    /\ clean[0]
    /\ frag_last.data = [id |-> 0, bytes |-> Payload(0)]

\* C5: a fragment whose (message_id, fragment_id) was already received for
\* an in-flight message returns None and leaves the entry's received
\* bitmap, num_received_fragments and bytes unchanged, whatever its bytes.
C5_DuplicateIsIdempotent ==
    [][\A m \in FragmentMessageIds :
          (/\ ReceiveStep
           /\ frag_last'.fragment.message_id = m
           /\ m \in DOMAIN fragment_messages
           /\ frag_last'.fragment.fragment_id < Len(fragment_messages[m].received)
           /\ fragment_messages[m].received[frag_last'.fragment.fragment_id + 1])
          => /\ frag_last'.result = "None"
             /\ m \in DOMAIN fragment_messages'
             /\ Progress(fragment_messages'[m]) = Progress(fragment_messages[m])
       ]_vars

\* C5 witness: fragment 0 of message 0 arrived again with other bytes and
\* the entry still holds the bytes of the first arrival.
C5_Witness ==
    /\ frag_last.op = "receive_fragment"
    /\ frag_last.result = "None"
    /\ frag_last.fragment.message_id = 0
    /\ frag_last.fragment.fragment_id = 0
    /\ frag_last.fragment.bytes = AltBytes(FRAGMENT_SIZE)
    /\ 0 \in DOMAIN fragment_messages
    /\ fragment_messages[0].num_received_fragments = 1
    /\ fragment_messages[0].received[1]
    /\ Slice(fragment_messages[0].bytes, 0, FRAGMENT_SIZE) = build_fragment(0, 0).bytes

\* C6: cleanup(cutoff) removes exactly the entries whose last_received is
\* defined and <= cutoff; every other entry is retained unchanged.
C6_CleanupRemovesExactlyOld ==
    [][CleanupStep =>
          /\ DOMAIN fragment_messages' =
                {m \in DOMAIN fragment_messages :
                    \/ fragment_messages[m].last_received = NoTime
                    \/ fragment_messages[m].last_received > frag_last'.cleanup_time}
          /\ \A m \in DOMAIN fragment_messages' :
                fragment_messages'[m] = fragment_messages[m]
       ]_vars

\* C6 witness: a cleanup evicted message 0 and retained message 1, which
\* has a timestamp later than the cutoff.
C6_Witness ==
    /\ frag_last.op = "cleanup"
    /\ frag_last.evicted = {0}
    /\ DOMAIN fragment_messages = {1}
    /\ fragment_messages[1].last_received > frag_last.cleanup_time

\* C7: right after receive_fragment returns Some for message m, and right
\* after a cleanup that evicts m, fragment_messages has no entry for m; the
\* completion leaves the entries of the other ids untouched.
C7_NoEntryAfterCompletionOrEviction ==
    [][/\ (ReceiveStep /\ frag_last'.result = "Some")
            => /\ frag_last'.fragment.message_id \notin DOMAIN fragment_messages'
               /\ DOMAIN fragment_messages' =
                     DOMAIN fragment_messages \ {frag_last'.fragment.message_id}
               /\ \A k \in DOMAIN fragment_messages' :
                     fragment_messages'[k] = fragment_messages[k]
       /\ CleanupStep
            => \A m \in DOMAIN fragment_messages :
                  (/\ fragment_messages[m].last_received # NoTime
                   /\ fragment_messages[m].last_received <= frag_last'.cleanup_time)
                  => m \notin DOMAIN fragment_messages'
       ]_vars

\* C7 witness: message 0 completed while message 1 is still in flight.
C7_Witness ==
    /\ frag_last.op = "receive_fragment"
    /\ frag_last.result = "Some"
    /\ frag_last.data.id = 0
    /\ DOMAIN fragment_messages = {1}
    /\ fragment_messages[1].num_received_fragments = 2

\* the number of fragments the receiver has on record for the message of
\* fragment f
RecordedNumFragments(f) ==
    IF f.message_id \in DOMAIN fragment_messages
    THEN fragment_messages[f.message_id].num_fragments
    ELSE f.num_fragments

\* the entry of message m is as it was, for the progress of the reassembly
ProgressRetained(m) ==
    m \in DOMAIN fragment_messages
        => /\ m \in DOMAIN fragment_messages'
           /\ Progress(fragment_messages'[m]) = Progress(fragment_messages[m])

\* C8: receive_fragment with fragment_id >= num_fragments fails with an
\* error returned to the caller, without a panic, and the partial state held
\* for the message id is retained.
C8_BadIndexIsError ==
    [][(/\ ReceiveStep
        /\ frag_last'.fragment.fragment_id >= RecordedNumFragments(frag_last'.fragment))
          => /\ frag_last'.result = "Err"
             /\ ProgressRetained(frag_last'.fragment.message_id)
       ]_vars

\* the byte length of fragment f is not one the sender produces
WrongSize(f) ==
    IF f.fragment_id = f.num_fragments - 1
    THEN Len(f.bytes) = 0 \/ Len(f.bytes) > FRAGMENT_SIZE
    ELSE Len(f.bytes) # FRAGMENT_SIZE

\* C9: receive_fragment rejects a wrongly sized fragment with an error and
\* writes nothing: it is not marked received, not counted, and the buffer is
\* unchanged.
C9_WrongSizeIsError ==
    [][(/\ ReceiveStep
        /\ frag_last'.fragment.fragment_id < frag_last'.fragment.num_fragments
        /\ WrongSize(frag_last'.fragment))
          => /\ frag_last'.result = "Err"
             /\ ProgressRetained(frag_last'.fragment.message_id)
       ]_vars

\* C10: receive_fragment for an in-flight message id with a num_fragments
\* other than the recorded one fails with an error and drops the entry.
C10_CountMismatchIsError ==
    [][(/\ ReceiveStep
        /\ frag_last'.fragment.message_id \in DOMAIN fragment_messages
        /\ frag_last'.fragment.num_fragments
              # fragment_messages[frag_last'.fragment.message_id].num_fragments)
          => /\ frag_last'.result = "Err"
             /\ frag_last'.fragment.message_id \notin DOMAIN fragment_messages'
       ]_vars

\* the indices marked received in constructor c
ReceivedSet(c) == {i \in DOMAIN c.received : c.received[i]}

\* C12: every in-flight constructor counts exactly the fragments marked
\* received, and fewer than num_fragments of them.
C12_CountMatchesBitmap ==
    \A m \in DOMAIN fragment_messages :
        LET c == fragment_messages[m]
        IN  /\ c.num_received_fragments = Cardinality(ReceivedSet(c))
            /\ 0 <= c.num_received_fragments
            /\ c.num_received_fragments < c.num_fragments

\* the length the buffer of message m must have in constructor c
ExpectedLen(m, c) ==
    IF c.received[c.num_fragments]
    THEN (c.num_fragments - 1) * FRAGMENT_SIZE
            + Len(build_fragment(m, c.num_fragments - 1).bytes)
    ELSE c.num_fragments * FRAGMENT_SIZE

\* the buffers of the constructors that received only valid fragments have
\* the expected length
BufferLengthOK ==
    \A m \in DOMAIN fragment_messages :
        clean[m] => Len(fragment_messages[m].bytes) = ExpectedLen(m, fragment_messages[m])

\* the buffer of message m before the step (all zero if it has no entry)
BytesBefore(m) ==
    IF m \in DOMAIN fragment_messages
    THEN fragment_messages[m].bytes
    ELSE [k \in 1 .. (NumFragments(m) * FRAGMENT_SIZE) |-> 0]

\* buffer `after` is `before`, resized, with `bytes` written at [start, end)
\* and nothing else changed
WrittenOnlyInside(before, after, start, bytes) ==
    /\ start + Len(bytes) <= Len(after)
    /\ Slice(after, start, start + Len(bytes)) = bytes
    /\ \A k \in 1 .. Len(after) :
          (k <= start \/ k > start + Len(bytes))
              => after[k] = (IF k <= Len(before) THEN before[k] ELSE 0)

\* C13: while only valid fragments arrive, a constructor's buffer is
\* num_fragments * FRAGMENT_SIZE long until the last fragment is received
\* and (num_fragments - 1) * FRAGMENT_SIZE + len(last fragment) afterwards,
\* and each fragment is copied to [fragment_id * FRAGMENT_SIZE,
\* fragment_id * FRAGMENT_SIZE + len), inside the current buffer, also when
\* the last fragment arrived first.
C13_BufferLengthAndWrites ==
    [][/\ BufferLengthOK'
       /\ \A m \in FragmentMessageIds :
            (/\ ReceiveStep
             /\ frag_last'.fragment.message_id = m
             /\ m \in DOMAIN fragment_messages => clean[m]
             /\ IsNewValidFragment(frag_last'.fragment))
            => /\ frag_last'.result # "Panic"
               /\ WrittenOnlyInside(
                      BytesBefore(m),
                      IF frag_last'.result = "Some"
                      THEN frag_last'.data.bytes
                      ELSE fragment_messages'[m].bytes,
                      frag_last'.fragment.fragment_id * FRAGMENT_SIZE,
                      frag_last'.fragment.bytes)
       ]_vars

\* C13 witness: the last fragment of message 1 arrived first and trimmed the
\* buffer, then fragment 0 was copied into it.
C13_Witness ==
    /\ frag_last.op = "receive_fragment"
    /\ frag_last.fragment = build_fragment(1, 0)
    /\ 1 \in DOMAIN fragment_messages
    /\ clean[1]
    /\ fragment_messages[1].received = <<TRUE, FALSE, TRUE>>
    /\ Len(fragment_messages[1].bytes) = PayloadLen(1)
    /\ Len(fragment_messages[1].bytes) < 3 * FRAGMENT_SIZE
    /\ Slice(fragment_messages[1].bytes, 0, FRAGMENT_SIZE) = build_fragment(1, 0).bytes

\* C14: receive_fragment for one message id never changes the entry of
\* another; a message fed valid fragments completes exactly on the call
\* that brings its own last missing fragment, with its own payload,
\* whatever is in flight for other ids; the completion is returned by that
\* very call.
C14_IndependentMessages ==
    [][ReceiveStep =>
        LET m == frag_last'.fragment.message_id
        IN  /\ \A k \in FragmentMessageIds \ {m} :
                  /\ k \in DOMAIN fragment_messages' <=> k \in DOMAIN fragment_messages
                  /\ k \in DOMAIN fragment_messages
                        => fragment_messages'[k] = fragment_messages[k]
            /\ frag_last'.result = "Some" => frag_last'.data.id = m
            /\ ((m \in DOMAIN fragment_messages => clean[m])
                   /\ IsNewValidFragment(frag_last'.fragment))
                  => /\ frag_last'.result = "Some"
                          <=> ReceivedSet(IF m \in DOMAIN fragment_messages
                                          THEN fragment_messages[m]
                                          ELSE FragmentConstructor_new(NumFragments(m)))
                                \cup {frag_last'.fragment.fragment_id + 1}
                                = 1 .. NumFragments(m)
                     /\ frag_last'.result = "Some" => frag_last'.data.bytes = Payload(m)
       ]_vars

\* C14 witness: message 1 completed from valid fragments while message 0,
\* also fed valid fragments only, is half received.
C14_Witness ==
    /\ frag_last.op = "receive_fragment"
    /\ frag_last.result = "Some"
    /\ frag_last.data = [id |-> 1, bytes |-> Payload(1)]
    /\ clean[1]
    /\ DOMAIN fragment_messages = {0}
    /\ clean[0]
    /\ fragment_messages[0].num_received_fragments = 1

\* C17: a receive_fragment call with a timestamp sets last_received of the
\* message's entry to that timestamp, also for a duplicate; and cleanup
\* does not evict an entry whose last_received is later than the cutoff.
C17_EveryArrivalRefreshes ==
    [][/\ (ReceiveStep /\ frag_last'.time # NoTime
              /\ frag_last'.fragment.message_id \in DOMAIN fragment_messages')
            => fragment_messages'[frag_last'.fragment.message_id].last_received
                  = frag_last'.time
       /\ CleanupStep
            => \A m \in DOMAIN fragment_messages :
                  fragment_messages[m].last_received > frag_last'.cleanup_time
                      => /\ m \in DOMAIN fragment_messages'
                         /\ fragment_messages'[m] = fragment_messages[m]
       ]_vars

\* C17 witness: the only fragment received of message 1 has arrived again,
\* at time 1, and the entry carries that time.
C17_Witness ==
    /\ frag_last.op = "receive_fragment"
    /\ frag_last.result = "None"
    /\ frag_last.fragment.message_id = 1
    /\ frag_last.fragment \in ValidFragments
    /\ frag_last.time = 1
    /\ 1 \in DOMAIN fragment_messages
    /\ fragment_messages[1].num_received_fragments = 1
    /\ ~clean[1]
    /\ fragment_messages[1].last_received = 1

\* C18: last_received of an in-flight entry never decreases and never goes
\* back from a timestamp to undefined (stated for the entries that receive
\* valid fragments only).
C18_LastReceivedMonotonic ==
    [][\A m \in DOMAIN fragment_messages \cap DOMAIN fragment_messages' :
          (clean[m] /\ clean'[m] /\ fragment_messages[m].last_received # NoTime)
              => /\ fragment_messages'[m].last_received # NoTime
                 /\ fragment_messages'[m].last_received
                       >= fragment_messages[m].last_received
       ]_vars

\* C20: a valid fragment of a message that has just completed from valid
\* fragments, arriving again, leaves no in-flight entry for the message id
\* and does not complete the message again.
C20_NoEntryAfterRetransmission ==
    [][(/\ frag_last.op = "receive_fragment"
        /\ frag_last.result = "Some"
        /\ clean[frag_last.data.id]
        /\ ReceiveStep
        /\ frag_last'.fragment \in build_fragments(frag_last.data.id))
          => /\ frag_last'.result = "None"
             /\ frag_last.data.id \notin DOMAIN fragment_messages'
       ]_vars
====
